---- MODULE Spec2Model ----
(***************************************************************************)
(* Model of src/main.py (BrownCorpusAnalyzer): the tag and word            *)
(* normalisers, the token resolver process_tuple and the three counters    *)
(* it feeds.                                                               *)
(*                                                                         *)
(* A Python str is modelled as a sequence of one-character strings, so     *)
(* that the regular expressions, split, strip and join of the source are   *)
(* computed character by character.  Python's None is the value None       *)
(* below, which is no character sequence.  The character classes are the   *)
(* ASCII ones (\d, \s and str.strip() also accept non-ASCII digits and     *)
(* spaces, which the inputs enumerated here do not contain).               *)
(***************************************************************************)
EXTENDS Integers, Sequences, FiniteSets, TLC

VARIABLES
    word_pos_counts,     \* self.word_pos_counts  : word -> (tag -> count)
    pos_total_counts,    \* self.pos_total_counts : tag -> count
    grouped_pos_counts,  \* self.grouped_pos_counts : group -> count
    processed,           \* history: the arguments of the process_tuple calls so far
    content,             \* the argument of process_file_content
    pending,             \* the tokens the loop of process_file_content still has to visit
    pc,                  \* position inside process_file_content / of the caller
    tag,                 \* the argument of a stand-alone clean_pos_tag call
    result               \* history: the results of the successive clean_pos_tag calls

vars == <<word_pos_counts, pos_total_counts, grouped_pos_counts, processed,
          content, pending, pc, tag, result>>

counters == <<word_pos_counts, pos_total_counts, grouped_pos_counts>>

-----------------------------------------------------------------------------
(* Python values and character classes *)

None == <<"<None>">>

nil == <<"n", "i", "l">>

EmptyCounter == [k \in {} |-> 0]

Digits == {"0", "1", "2", "3", "4", "5", "6", "7", "8", "9"}

LowerLetters == <<"a", "b", "c", "d", "e", "f", "g", "h", "i", "j", "k", "l", "m",
                  "n", "o", "p", "q", "r", "s", "t", "u", "v", "w", "x", "y", "z">>

UpperLetters == <<"A", "B", "C", "D", "E", "F", "G", "H", "I", "J", "K", "L", "M",
                  "N", "O", "P", "Q", "R", "S", "T", "U", "V", "W", "X", "Y", "Z">>

LowerSet == {LowerLetters[i] : i \in DOMAIN LowerLetters}

\* the grave accent (U+0060), which a string literal of this notation cannot hold
Backtick == "<grave>"

\* string.punctuation
Punctuation == {"!", "\"", "#", "$", "%", "&", "'", "(", ")", "*", "+", ",", "-",
                ".", "/", ":", ";", "<", "=", ">", "?", "@", "[", "\\", "]", "^",
                "_", Backtick, "{", "|", "}", "~"}

\* what \s and str.strip() remove
Whitespace == {" ", "\t", "\n", "\r", "\f"}

-----------------------------------------------------------------------------
(* str methods *)

Contains(s, c) == \E i \in 1..Len(s) : s[i] = c

AllIn(s, S) == \A i \in 1..Len(s) : s[i] \in S

StartsWith(s, p) == Len(s) >= Len(p) /\ SubSeq(s, 1, Len(p)) = p

EndsWith(s, p) == Len(s) >= Len(p) /\ SubSeq(s, Len(s) - Len(p) + 1, Len(s)) = p

MinOf(S) == CHOOSE i \in S : \A j \in S : i <= j

MaxOf(S) == CHOOSE i \in S : \A j \in S : i >= j

\* s.lower()
LowerChar(c) ==
    IF \E i \in DOMAIN UpperLetters : UpperLetters[i] = c
    THEN LowerLetters[CHOOSE i \in DOMAIN UpperLetters : UpperLetters[i] = c]
    ELSE c

Lower(s) == [i \in 1..Len(s) |-> LowerChar(s[i])]

\* s.strip(chars)
Strip(s, chars) ==
    LET keep == {i \in 1..Len(s) : s[i] \notin chars}
    IN IF keep = {} THEN <<>> ELSE SubSeq(s, MinOf(keep), MaxOf(keep))

\* s.split(sep) for a one-character sep
RECURSIVE Split(_, _)
Split(s, sep) ==
    LET at == {i \in 1..Len(s) : s[i] = sep}
        i == MinOf(at)
    IN IF at = {} THEN <<s>>
       ELSE <<SubSeq(s, 1, i - 1)>> \o Split(SubSeq(s, i + 1, Len(s)), sep)

\* s.rsplit(sep, 1) for an s that contains sep
RSplit1(s, sep) ==
    LET i == MaxOf({j \in 1..Len(s) : s[j] = sep})
    IN <<SubSeq(s, 1, i - 1), SubSeq(s, i + 1, Len(s))>>

\* sep.join(parts)
RECURSIVE Join(_, _)
Join(parts, sep) ==
    IF Len(parts) = 0 THEN <<>>
    ELSE IF Len(parts) = 1 THEN parts[1]
    ELSE parts[1] \o <<sep>> \o Join(Tail(parts), sep)

Front(s) == SubSeq(s, 1, Len(s) - 1)

-----------------------------------------------------------------------------
(* the regular expressions of the source *)

\* a pattern anchored by ^ and $ matches the whole string, or all of it but a
\* final newline: the strings such a pattern is matched against in full
Anchored(s) ==
    IF Len(s) > 0 /\ s[Len(s)] = "\n" THEN {s, Front(s)} ELSE {s}

IsDigitRun(s) == Len(s) > 0 /\ AllIn(s, Digits)

IsLowerRun(s) == Len(s) > 0 /\ AllIn(s, LowerSet)

\* ^\d+/\d+$
FractionBody(s) ==
    LET parts == Split(s, "/")
    IN Len(parts) = 2 /\ IsDigitRun(parts[1]) /\ IsDigitRun(parts[2])

MatchFraction(s) == \E v \in Anchored(s) : FractionBody(v)

\* ^\d+(?:-\d+)+$
RangeBody(s) ==
    LET parts == Split(s, "-")
    IN Len(parts) >= 2 /\ \A i \in 1..Len(parts) : IsDigitRun(parts[i])

MatchNumericRange(s) == \E v \in Anchored(s) : RangeBody(v)

\* ^([a-z]+)/([a-z]+)/([a-z]+)$
SharedTagBody(s) ==
    LET parts == Split(s, "/")
    IN Len(parts) = 3 /\ \A i \in 1..3 : IsLowerRun(parts[i])

MatchSharedTagNever(s) == FALSE

MatchSharedTag(s) == \E v \in Anchored(s) : SharedTagBody(v)

\* ^\d+(?:/\d+)+/[a-z]+$
MultiSlashBody(s) ==
    LET parts == Split(s, "/")
    IN /\ Len(parts) >= 3
       /\ \A i \in 1..(Len(parts) - 1) : IsDigitRun(parts[i])
       /\ IsLowerRun(parts[Len(parts)])

MatchMultiSlashNumeric(s) == \E v \in Anchored(s) : MultiSlashBody(v)

SuffixMarkers == {<<"h", "l">>, <<"t", "l">>, <<"n", "c">>}

\* -(hl|tl|nc)(?:-|$) tried at position i: the length of the match, 0 for none
SuffixMatchLen(s, i) ==
    IF i + 2 <= Len(s) /\ s[i] = "-" /\ <<s[i + 1], s[i + 2]>> \in SuffixMarkers
    THEN IF i + 3 <= Len(s) /\ s[i + 3] = "-" THEN 4
         ELSE IF i + 2 = Len(s) THEN 3
         ELSE IF i + 3 = Len(s) /\ s[i + 3] = "\n" THEN 3
         ELSE 0
    ELSE 0

\* re.search(r'-(hl|tl|nc)(?:-|$)', s)
SearchSuffix(s) == \E i \in 1..Len(s) : SuffixMatchLen(s, i) > 0

\* re.sub(r'-(hl|tl|nc)(?:-|$)', '', s): the matches are taken left to right
\* and do not overlap
RECURSIVE SubSuffixFrom(_, _)
SubSuffixFrom(s, i) ==
    IF i > Len(s) THEN <<>>
    ELSE LET n == SuffixMatchLen(s, i)
         IN IF n > 0 THEN SubSuffixFrom(s, i + n) ELSE <<s[i]>> \o SubSuffixFrom(s, i + 1)

SubSuffix(s) == SubSuffixFrom(s, 1)

\* re.sub(r"'s$", "", s)
SubPossessive(s) ==
    IF EndsWith(s, <<"'", "s">>) THEN SubSeq(s, 1, Len(s) - 2)
    ELSE IF EndsWith(s, <<"'", "s", "\n">>) THEN SubSeq(s, 1, Len(s) - 3) \o <<"\n">>
    ELSE s

\* re.split(r"\s+", s): the pieces between the runs of whitespace
RECURSIVE SplitWhitespace(_)
SplitWhitespace(s) ==
    LET ws == {i \in 1..Len(s) : s[i] \in Whitespace}
    IN IF ws = {} THEN <<s>>
       ELSE LET i == MinOf(ws)
                rest == {j \in (i + 1)..Len(s) : s[j] \notin Whitespace}
            IN <<SubSeq(s, 1, i - 1)>>
                 \o SplitWhitespace(IF rest = {} THEN <<>>
                                    ELSE SubSeq(s, MinOf(rest), Len(s)))

-----------------------------------------------------------------------------
(* get_pos_group *)

pos_groups ==
    [NOUN |-> {<<"n","n">>, <<"n","n","s">>, <<"n","p">>, <<"n","p","s">>, <<"n","r">>,
               <<"n","$">>, <<"n","p","$">>, <<"n","n","s","$">>, <<"n","r","$">>,
               <<"n","r","s">>},
     VERB |-> {<<"v","b">>, <<"v","b","d">>, <<"v","b","g">>, <<"v","b","n">>,
               <<"v","b","z">>, <<"b","e">>, <<"b","e","d">>, <<"b","e","d","z">>,
               <<"b","e","g">>, <<"b","e","m">>, <<"b","e","n">>, <<"b","e","r">>,
               <<"b","e","z">>, <<"d","o">>, <<"d","o","d">>, <<"d","o","z">>,
               <<"h","v">>, <<"h","v","d">>, <<"h","v","g">>, <<"h","v","n">>,
               <<"h","v","z">>, <<"m","d">>, <<"m","d","*">>, <<"d","o","*">>},
     ADJ |-> {<<"j","j">>, <<"j","j","r">>, <<"j","j","s">>, <<"j","j","t">>},
     ADV |-> {<<"r","b">>, <<"r","b","r">>, <<"r","b","t">>, <<"r","n">>, <<"q","l">>,
              <<"q","l","s">>, <<"q","l","p">>, <<"w","q","l">>},
     PRON |-> {<<"p","p","$">>, <<"p","p","$","$">>, <<"p","p","l">>,
               <<"p","p","l","s">>, <<"p","p","o">>, <<"p","p","s">>,
               <<"p","p","s","s">>, <<"w","p","s">>, <<"w","p","$">>, <<"w","p","o">>},
     DET |-> {<<"a","t">>, <<"d","t">>, <<"d","t","i">>, <<"d","t","s">>,
              <<"d","t","x">>, <<"w","d","t">>},
     ADP |-> {<<"i","n">>, <<"t","o">>},
     CONJ |-> {<<"c","c">>, <<"c","s">>},
     NUM |-> {<<"c","d">>, <<"o","d">>}]

\* self.tag_to_group.get(t, 'OTHER'); no tag is listed under two groups
tag_to_group(t) ==
    IF \E g \in DOMAIN pos_groups : t \in pos_groups[g]
    THEN CHOOSE g \in DOMAIN pos_groups : t \in pos_groups[g]
    ELSE "OTHER"

get_pos_group(t) == IF t = nil THEN "OTHER" ELSE tag_to_group(t)

-----------------------------------------------------------------------------
(* clean_pos_tag *)

\* the while loop of clean_pos_tag
RECURSIVE StripSuffixMarkers(_)
StripSuffixMarkers(t) ==
    IF SearchSuffix(t) THEN StripSuffixMarkers(SubSuffix(t)) ELSE t

TagPrefixes == {<<"f", "w", "-">>, <<"n", "c", "-">>, <<"n", "p", "-">>}

StripTagPrefix(t) ==
    IF \E p \in TagPrefixes : StartsWith(t, p) THEN SubSeq(t, 4, Len(t)) ELSE t

BeforePlus(t) == IF Contains(t, "+") THEN Split(t, "+")[1] ELSE t

BeforeDash(t) == IF Contains(t, "-") THEN Split(t, "-")[1] ELSE t

\* the tag as it stands just before the final "or 'nil'"
ReducedTag(t) ==
    Strip(BeforeDash(BeforePlus(StripTagPrefix(StripSuffixMarkers(t)))), Whitespace)

clean_pos_tag_dropEmpty(t) ==
    IF t = <<>> \/ t = nil THEN nil
    ELSE IF Contains(t, "*") THEN None
    ELSE LET r == ReducedTag(t) IN IF r = <<>> THEN None ELSE r

clean_pos_tag_noDashSplit(t) ==
    IF t = <<>> \/ t = nil THEN nil
    ELSE IF Contains(t, "*") THEN None
    ELSE LET r == Strip(BeforePlus(StripTagPrefix(StripSuffixMarkers(t))), Whitespace)
         IN IF r = <<>> THEN nil ELSE r

clean_pos_tag(t) ==
    IF t = <<>> \/ t = nil THEN nil
    ELSE IF Contains(t, "*") THEN None
    ELSE LET r == ReducedTag(t) IN IF r = <<>> THEN nil ELSE r

-----------------------------------------------------------------------------
(* clean_word *)

WordQuotes == {"'", "\"", " "}

clean_word_keepPunctuation(word) ==
    LET w == SubPossessive(Strip(word, WordQuotes))
    IN IF w # <<>> THEN w ELSE None

clean_word(word) ==
    LET w == SubPossessive(Strip(word, WordQuotes))
    IN IF w # <<>> /\ AllIn(w, Punctuation) THEN None
       ELSE IF Contains(w, "-") /\ MatchNumericRange(w) THEN w
       ELSE IF Contains(w, "-") /\ ~EndsWith(w, <<"-">>) THEN w
       ELSE IF MatchFraction(w) THEN w
       ELSE IF w # <<>> THEN w ELSE None

-----------------------------------------------------------------------------
(* the counters: defaultdict(int) and defaultdict(lambda: defaultdict(int)) *)

\* the three counters of one analyzer, as the operators below pass them on
Counters(w, p, g) == [w |-> w, p |-> p, g |-> g]

EmptyCounters == Counters(EmptyCounter, EmptyCounter, EmptyCounter)

\* a bool(x) of the source, for x a str or None
Truthy(x) == x # None /\ x # <<>>

SetCount(f, k) == IF k \in DOMAIN f THEN [f EXCEPT ![k] = 1] ELSE f @@ (k :> 1)

\* f[k] += 1
IncCount(f, k) == IF k \in DOMAIN f THEN [f EXCEPT ![k] = @ + 1] ELSE f @@ (k :> 1)

\* f[word][pos] += 1
IncWordPos(f, word, pos) ==
    IF word \in DOMAIN f THEN [f EXCEPT ![word] = IncCount(@, pos)]
    ELSE f @@ (word :> IncCount(EmptyCounter, pos))

\* the three increments of lines 151-155 and 175-179
CountPair(st, word, pos) ==
    Counters(IncWordPos(st.w, word, pos), IncCount(st.p, pos),
             IncCount(st.g, get_pos_group(pos)))

\* the two increments of lines 92-93
CountCompoundPart(st, word, pos) ==
    Counters(IncWordPos(st.w, word, pos), IncCount(st.p, pos), st.g)

-----------------------------------------------------------------------------
(* process_compound_word *)

\* the for loop over the parts of the word
RECURSIVE CompoundLoop(_, _, _)
CompoundLoop(st, parts, pos) ==
    LET cleaned_word == clean_word(Head(parts))
    IN IF parts = <<>> THEN st
       ELSE CompoundLoop(IF Truthy(cleaned_word) /\ pos # None
                         THEN CountCompoundPart(st, cleaned_word, pos)
                         ELSE st,
                         Tail(parts), pos)

IsCompound(word) == Contains(word, "/") /\ ~MatchFraction(word)

process_compound_word_noTotal(st, word, pos) ==
    IF IsCompound(word)
    THEN [handled |-> TRUE,
          st |-> Counters(CompoundLoop(st, Split(word, "/"), pos).w, st.p, st.g)]
    ELSE [handled |-> FALSE, st |-> st]

\* the counters after the call, and the value it returns
process_compound_word(st, word, pos) ==
    IF IsCompound(word)
    THEN [handled |-> TRUE, st |-> CompoundLoop(st, Split(word, "/"), pos)]
    ELSE [handled |-> FALSE, st |-> st]

-----------------------------------------------------------------------------
(* process_tuple *)

\* lines 143-156: the two words of a token such as and/or/cc
RECURSIVE SharedLoop(_, _, _)
SharedLoop(st, words, pos) ==
    LET cleaned_word == clean_word(Head(words))
        cleaned_pos == clean_pos_tag(pos)
    IN IF words = <<>> THEN st
       ELSE SharedLoop(IF Truthy(cleaned_word) /\ cleaned_pos # None
                       THEN CountPair(st, cleaned_word, cleaned_pos)
                       ELSE st,
                       Tail(words), pos)

SharedTagPath(st, tuple) ==
    LET parts == Split(tuple, "/")
    IN SharedLoop(st, <<parts[1], parts[2]>>, parts[Len(parts)])

\* lines 159-164: the word and the tag of a token of the other forms
WordAndPos(tuple) ==
    IF MatchMultiSlashNumeric(tuple)
    THEN LET parts == Split(tuple, "/")
         IN <<Join(Front(parts), "/"), parts[Len(parts)]>>
    ELSE RSplit1(tuple, "/")

\* lines 165-179
SinglePath(st, word, pos) ==
    LET cleaned_pos == clean_pos_tag(pos)
        compound == process_compound_word(st, word, cleaned_pos)
        cleaned_word == clean_word(word)
    IN IF word = <<>> \/ pos = <<>> THEN st
       ELSE IF cleaned_pos = None THEN st
       ELSE IF compound.handled THEN compound.st
       ELSE IF cleaned_word # None THEN CountPair(st, cleaned_word, cleaned_pos)
       ELSE st

\* the counters after process_tuple(tuple); no statement of the try block can
\* raise on a str, so the except branch is never taken
process_tuple(st, tuple) ==
    LET word_pos == WordAndPos(tuple)
    IN IF tuple = <<>> \/ ~Contains(tuple, "/") THEN st
       ELSE IF MatchSharedTag(tuple) THEN SharedTagPath(st, tuple)
       ELSE SinglePath(st, word_pos[1], word_pos[2])

\* the tokens process_file_content hands to process_tuple, in order
FileTokens(c) == SplitWhitespace(Strip(Lower(c), Whitespace))

-----------------------------------------------------------------------------
(* the inputs *)

MaxTokens == 3

MaxMergeTokens == 3

MaxContentTokens == 4

MaxTagPieces == 3

SeqsUpTo(S, n) == UNION {[1..k -> S] : k \in 0..n}

RECURSIVE Concat(_)
Concat(ps) == IF ps = <<>> THEN <<>> ELSE Head(ps) \o Concat(Tail(ps))

RECURSIVE JoinWith(_, _)
JoinWith(parts, sep) ==
    IF Len(parts) = 0 THEN <<>>
    ELSE IF Len(parts) = 1 THEN parts[1]
    ELSE parts[1] \o sep \o JoinWith(Tail(parts), sep)

\* the word parts of the tokens handed to process_tuple:
\*   a  a/b  1/2  1/2/3  .
WordForms ==
    {<<"a">>, <<"a", "/", "b">>, <<"1", "/", "2">>, <<"1", "/", "2", "/", "3">>,
     <<".">>}

\* their tag parts:  nn  .  -hl
TagForms == {<<"n", "n">>, <<".">>, <<"-", "h", "l">>}

\* further tokens:  a/a/nn  /'s/nn  a/md*  a/fw-  a/  /nn  a
OtherTokens ==
    {<<"a", "/", "a", "/", "n", "n">>, <<"/", "'", "s", "/", "n", "n">>,
     <<"a", "/", "m", "d", "*">>, <<"a", "/", "f", "w", "-">>, <<"a", "/">>,
     <<"/", "n", "n">>, <<"a">>}

\* word/tag for every word and tag above, and the further tokens
Tokens == {w \o <<"/">> \o t : w \in WordForms, t \in TagForms} \cup OtherTokens

\* the tokens of the runs that are reordered and split:
\*   a/nn  a/a/nn  a/b/nn  a/b/.  1/2/nn  1/2/3/nn  ./nn  a/-hl
MergeTokens ==
    {<<"a", "/", "n", "n">>, <<"a", "/", "a", "/", "n", "n">>,
     <<"a", "/", "b", "/", "n", "n">>, <<"a", "/", "b", "/", ".">>,
     <<"1", "/", "2", "/", "n", "n">>, <<"1", "/", "2", "/", "3", "/", "n", "n">>,
     <<".", "/", "n", "n">>, <<"a", "/", "-", "h", "l">>}

\* the tokens of the file contents:
\*   the/at  dog/nn  barks/vbz  ./.  The/AT  a/b1/nn
ContentTokens ==
    {<<"t", "h", "e", "/", "a", "t">>, <<"d", "o", "g", "/", "n", "n">>,
     <<"b", "a", "r", "k", "s", "/", "v", "b", "z">>, <<".", "/", ".">>,
     <<"T", "h", "e", "/", "A", "T">>, <<"a", "/", "b", "1", "/", "n", "n">>}

Separators == {<<" ">>, <<" ", "\n">>}

\* file contents: tokens separated by whitespace, with a trailing space
Contents ==
    {JoinWith(ts, sep) \o <<" ">> :
        ts \in SeqsUpTo(ContentTokens, MaxContentTokens), sep \in Separators}

\* the pieces the raw tags are put together from:
\*   nn  nil  -hl  -tl  -nc  fw-  +  *  and a space
TagPieces ==
    {<<"n", "n">>, nil, <<"-", "h", "l">>, <<"-", "t", "l">>, <<"-", "n", "c">>,
     <<"f", "w", "-">>, <<"+">>, <<"*">>, <<" ">>}

TagInputs == {Concat(ps) : ps \in SeqsUpTo(TagPieces, MaxTagPieces)}

-----------------------------------------------------------------------------
(* a caller that makes process_tuple calls on a fresh analyzer *)

Fresh ==
    /\ word_pos_counts = EmptyCounter
    /\ pos_total_counts = EmptyCounter
    /\ grouped_pos_counts = EmptyCounter

Now == Counters(word_pos_counts, pos_total_counts, grouped_pos_counts)

Becomes(st) ==
    /\ word_pos_counts' = st.w
    /\ pos_total_counts' = st.p
    /\ grouped_pos_counts' = st.g

Init ==
    /\ Fresh
    /\ processed = <<>>
    /\ content = <<>>
    /\ pending = <<>>
    /\ pc = "calls"
    /\ tag = <<>>
    /\ result = <<>>

ProcessTuple ==
    \E t \in Tokens :
        /\ pc = "calls"
        /\ Len(processed) < MaxTokens
        /\ Becomes(process_tuple(Now, t))
        /\ processed' = Append(processed, t)
        /\ UNCHANGED <<content, pending, pc, tag, result>>

Next == ProcessTuple

Spec == Init /\ [][Next]_vars

-----------------------------------------------------------------------------
(* the same caller, on the tokens of the runs that are reordered and split *)

InitMerge ==
    /\ Fresh
    /\ processed = <<>>
    /\ content = <<>>
    /\ pending = <<>>
    /\ pc = "merge"
    /\ tag = <<>>
    /\ result = <<>>

ProcessMergeTuple ==
    \E t \in MergeTokens :
        /\ pc = "merge"
        /\ Len(processed) < MaxMergeTokens
        /\ Becomes(process_tuple(Now, t))
        /\ processed' = Append(processed, t)
        /\ UNCHANGED <<content, pending, pc, tag, result>>

NextMerge == ProcessMergeTuple

MergeSpec == InitMerge /\ [][NextMerge]_vars

-----------------------------------------------------------------------------
(* process_file_content on a fresh analyzer *)

InitFile ==
    /\ Fresh
    /\ processed = <<>>
    /\ content \in Contents
    /\ pending = <<>>
    /\ pc = "split"
    /\ tag = <<>>
    /\ result = <<>>

\* lines 190-191: lower, strip and split the content
SplitContent ==
    /\ pc = "split"
    /\ pending' = FileTokens(content)
    /\ pc' = "loop"
    /\ UNCHANGED <<counters, processed, content, tag, result>>

\* line 192: one iteration of the loop
LoopStep ==
    /\ pc = "loop"
    /\ pending # <<>>
    /\ Becomes(process_tuple(Now, Head(pending)))
    /\ pending' = Tail(pending)
    /\ UNCHANGED <<processed, content, pc, tag, result>>

LoopEnd ==
    /\ pc = "loop"
    /\ pending = <<>>
    /\ pc' = "done"
    /\ UNCHANGED <<counters, processed, content, pending, tag, result>>

NextFile == SplitContent \/ LoopStep \/ LoopEnd

FileSpec == InitFile /\ [][NextFile]_vars

-----------------------------------------------------------------------------
(* clean_pos_tag called on a raw tag, and again on its own result *)

InitClean ==
    /\ Fresh
    /\ processed = <<>>
    /\ content = <<>>
    /\ pending = <<>>
    /\ pc = "clean"
    /\ tag \in TagInputs
    /\ result = <<>>

CleanPosTag ==
    /\ pc = "clean"
    /\ result = <<>>
    /\ result' = <<clean_pos_tag(tag)>>
    /\ UNCHANGED <<counters, processed, content, pending, pc, tag>>

CleanPosTagAgain ==
    /\ pc = "clean"
    /\ Len(result) = 1
    /\ result[1] # None
    /\ result' = Append(result, clean_pos_tag(result[1]))
    /\ UNCHANGED <<counters, processed, content, pending, pc, tag>>

NextClean == CleanPosTag \/ CleanPosTagAgain

CleanSpec == InitClean /\ [][NextClean]_vars

-----------------------------------------------------------------------------
(* vocabulary of the properties *)

RECURSIVE SumOver(_, _)
SumOver(f, D) ==
    IF D = {} THEN 0
    ELSE LET k == CHOOSE x \in D : TRUE IN f[k] + SumOver(f, D \ {k})

\* sum(f.values())
Total(f) == SumOver(f, DOMAIN f)

ValueAt(f, k) == IF k \in DOMAIN f THEN f[k] ELSE 0

\* f with n more occurrences under key k
Plus(f, k, n) ==
    [x \in DOMAIN f \cup {k} |-> ValueAt(f, x) + (IF x = k THEN n ELSE 0)]

\* f with n more occurrences of the pair (word, pos)
PlusWordPos(f, word, pos, n) ==
    [x \in DOMAIN f \cup {word} |->
        IF x = word
        THEN Plus(IF word \in DOMAIN f THEN f[word] ELSE EmptyCounter, pos, n)
        ELSE f[x]]

\* the counters with key-by-key sums of two analyzers' counters
MergeCount(f, g) == [k \in DOMAIN f \cup DOMAIN g |-> ValueAt(f, k) + ValueAt(g, k)]

MergeWordPos(f, g) ==
    [x \in DOMAIN f \cup DOMAIN g |->
        MergeCount(IF x \in DOMAIN f THEN f[x] ELSE EmptyCounter,
                   IF x \in DOMAIN g THEN g[x] ELSE EmptyCounter)]

Merge(a, b) ==
    Counters(MergeWordPos(a.w, b.w), MergeCount(a.p, b.p), MergeCount(a.g, b.g))

\* the counters after process_tuple on each token of ts in turn
RECURSIVE Run(_, _)
Run(st, ts) == IF ts = <<>> THEN st ELSE Run(process_tuple(st, Head(ts)), Tail(ts))

Orderings(n) == {p \in [1..n -> 1..n] : \A i, j \in 1..n : p[i] = p[j] => i = j}

\* the argument of the process_tuple call that a step makes
LastTuple == processed'[Len(processed')]

SlashCount(s) == Cardinality({i \in 1..Len(s) : s[i] = "/"})

\* the punctuation literals of the tag rules:  . , : ; ( ) " ' ? !
PunctuationLiterals ==
    {<<".">>, <<",">>, <<":">>, <<";">>, <<"(">>, <<")">>, <<"\"">>, <<"'">>,
     <<"?">>, <<"!">>}

the == <<"t", "h", "e">>
dog == <<"d", "o", "g">>
barks == <<"b", "a", "r", "k", "s">>
at == <<"a", "t">>
nn == <<"n", "n">>
vbz == <<"v", "b", "z">>

\* "the/at dog/nn barks/vbz ./. "
EndToEndContent ==
    the \o <<"/">> \o at \o <<" ">> \o dog \o <<"/">> \o nn \o <<" ">>
        \o barks \o <<"/">> \o vbz \o <<" ", ".", "/", ".", " ">>

-----------------------------------------------------------------------------
(* C1 (FileSpec): when process_file_content has processed all the tokens of a
   content, starting from empty counters, the values of pos_total_counts and
   the values of grouped_pos_counts have the same sum. *)
C1_Conservation ==
    pc = "done" => Total(pos_total_counts) = Total(grouped_pos_counts)

(* C2 (Spec): after any sequence of process_tuple calls from empty counters,
   pos_total_counts[t] is the sum of word_pos_counts[w][t] over the words w
   that have an entry for t, for every tag t either mapping knows. *)
C2_PerTagConsistency ==
    LET tags == DOMAIN pos_total_counts
                    \cup UNION {DOMAIN word_pos_counts[w] : w \in DOMAIN word_pos_counts}
        WordsWith(t) == {w \in DOMAIN word_pos_counts : t \in DOMAIN word_pos_counts[w]}
        PerWord(t) == [w \in WordsWith(t) |-> word_pos_counts[w][t]]
    IN \A t \in tags : ValueAt(pos_total_counts, t) = Total(PerWord(t))

\* all three paths were taken (shared tag, compound word, default) and two
\* words share a tag
C2_Witness ==
    /\ \E i \in 1..Len(processed) : MatchSharedTag(processed[i])
    /\ \E i \in 1..Len(processed) :
          /\ ~MatchSharedTag(processed[i])
          /\ Contains(processed[i], "/")
          /\ IsCompound(WordAndPos(processed[i])[1])
    /\ \E i \in 1..Len(processed) : SlashCount(processed[i]) = 1
    /\ \E t \in DOMAIN pos_total_counts :
          /\ pos_total_counts[t] >= 4
          /\ Cardinality({w \in DOMAIN word_pos_counts :
                             t \in DOMAIN word_pos_counts[w]}) >= 2

(* C3 (CleanSpec): for every base tag without '-', '+', '*' that is no marker,
   clean_pos_tag returns base for base-hl-tl, base-tl-hl and base-nc. *)
C3_StackedSuffixesStripped ==
    LET BaseTags == {b \in TagInputs : b # <<>> /\ AllIn(b, LowerSet)}
        hl == <<"-", "h", "l">>
        tl == <<"-", "t", "l">>
        nc == <<"-", "n", "c">>
    IN \A b \in BaseTags :
          (Len(result) >= 1 /\ tag \in {b \o hl \o tl, b \o tl \o hl, b \o nc})
              => result[1] = b

(* C4 (Spec): a process_tuple call on a token whose tag is a punctuation
   literal (which clean_pos_tag is to discard) leaves the three counters
   unchanged, so that no punctuation literal becomes a key of
   pos_total_counts. *)
C4_PunctuationTagDiscarded ==
    [][(Contains(LastTuple, "/") /\ RSplit1(LastTuple, "/")[2] \in PunctuationLiterals)
          => /\ UNCHANGED counters
             /\ DOMAIN pos_total_counts' \cap PunctuationLiterals = {}]_vars

(* C5 (Spec): on a token of digit groups joined by '/', a final '/' and an
   alphabetic tag, process_tuple emits exactly one pair: the word is everything
   before the final '/', the tag is the final segment, the total of
   pos_total_counts grows by 1 and no other word key is touched. *)
C5_MultiSlashNumericOnePair ==
    [][LET parts == Split(LastTuple, "/")
       IN (/\ Len(parts) >= 3
           /\ \A i \in 1..(Len(parts) - 1) : IsDigitRun(parts[i])
           /\ IsLowerRun(parts[Len(parts)]))
          => /\ word_pos_counts' =
                   PlusWordPos(word_pos_counts, Join(Front(parts), "/"),
                               parts[Len(parts)], 1)
             /\ Total(pos_total_counts') = Total(pos_total_counts) + 1]_vars

(* C6 (CleanSpec): clean_pos_tag applied to a result of its own that is not
   the discard sentinel returns that result again. *)
C6_CleanPosTagIdempotent ==
    Len(result) = 2 => result[2] = result[1]

\* the second call was made on a result that differs from the raw tag the
\* first call was given
C6_Witness ==
    /\ Len(result) = 2
    /\ result[1] # tag
    /\ tag \notin {<<>>, nil}

(* C7 (Spec): on a token of exactly three lowercase-alphabetic segments
   w1/w2/t, process_tuple counts exactly the pairs (w1, t) and (w2, t):
   word_pos_counts grows by 1 on each (by 2 on one key if w1 = w2),
   pos_total_counts[t] and grouped_pos_counts[get_pos_group(t)] grow by 2, and
   nothing else changes. *)
C7_SharedTagSplit ==
    [][LET parts == Split(LastTuple, "/")
       IN (Len(parts) = 3 /\ \A i \in 1..3 : IsLowerRun(parts[i]))
          => /\ word_pos_counts' =
                   PlusWordPos(PlusWordPos(word_pos_counts, parts[1], parts[3], 1),
                               parts[2], parts[3], 1)
             /\ pos_total_counts' = Plus(pos_total_counts, parts[3], 2)
             /\ grouped_pos_counts' =
                   Plus(grouped_pos_counts, get_pos_group(parts[3]), 2)]_vars

\* a/b/nn and a/a/nn have both been processed
C7_Witness ==
    /\ \E i \in 1..Len(processed) : processed[i] = <<"a", "/", "b", "/", "n", "n">>
    /\ \E i \in 1..Len(processed) : processed[i] = <<"a", "/", "a", "/", "n", "n">>
    /\ ValueAt(pos_total_counts, nn) >= 4
    /\ ValueAt(grouped_pos_counts, "NOUN") >= 4

(* C8 (FileSpec): process_file_content on "the/at dog/nn barks/vbz ./. " from
   empty counters ends with exactly the/at, dog/nn, barks/vbz counted once
   each, under DET, NOUN and VERB. *)
C8_EndToEnd ==
    (pc = "done" /\ content = EndToEndContent)
        => /\ word_pos_counts = (the :> (at :> 1)) @@ (dog :> (nn :> 1))
                                    @@ (barks :> (vbz :> 1))
           /\ pos_total_counts = (at :> 1) @@ (nn :> 1) @@ (vbz :> 1)
           /\ grouped_pos_counts = ("DET" :> 1) @@ ("NOUN" :> 1) @@ ("VERB" :> 1)

C8_Witness ==
    /\ pc = "done"
    /\ content = EndToEndContent
    /\ Total(pos_total_counts) = 3

(* C9 as stated (Spec): a process_tuple call on a token with a '/' whose tag
   part is non-empty but reduces to the empty string, or whose word part
   clean_word discards, leaves the three counters unchanged. *)
C9_EmptyAfterNormalizationDropped ==
    [][(/\ Contains(LastTuple, "/")
        /\ \/ /\ RSplit1(LastTuple, "/")[2] # <<>>
              /\ ReducedTag(RSplit1(LastTuple, "/")[2]) = <<>>
           \/ ~Truthy(clean_word(RSplit1(LastTuple, "/")[1])))
          => UNCHANGED counters]_vars

(* C9 as amended (Spec): on a token with exactly one '/', if clean_word
   discards the word part the three counters are unchanged; if the tag part is
   non-empty, has no '*' and reduces to the empty string, and clean_word keeps
   the word part, the token is counted once under the tag 'nil' and the group
   OTHER and nothing else changes. *)
C9_EmptyTagBecomesNil ==
    [][SlashCount(LastTuple) = 1
          => LET word == RSplit1(LastTuple, "/")[1]
                 pos == RSplit1(LastTuple, "/")[2]
             IN /\ ~Truthy(clean_word(word)) => UNCHANGED counters
                /\ (/\ Truthy(clean_word(word))
                    /\ pos # <<>>
                    /\ ~Contains(pos, "*")
                    /\ ReducedTag(pos) = <<>>)
                   => /\ word_pos_counts' =
                            PlusWordPos(word_pos_counts, clean_word(word), nil, 1)
                      /\ pos_total_counts' = Plus(pos_total_counts, nil, 1)
                      /\ grouped_pos_counts' = Plus(grouped_pos_counts, "OTHER", 1)]_vars

\* a/-hl was counted under nil, and ./nn and a/fw- were processed too
C9_Witness ==
    /\ \E i \in 1..Len(processed) : processed[i] = <<"a", "/", "-", "h", "l">>
    /\ \E i \in 1..Len(processed) : processed[i] = <<".", "/", "n", "n">>
    /\ \E i \in 1..Len(processed) : processed[i] = <<"a", "/", "f", "w", "-">>
    /\ word_pos_counts = (<<"a">> :> (nil :> 2))
    /\ grouped_pos_counts = ("OTHER" :> 2)

(* C10 (MergeSpec): the counters reached by the calls made so far are reached by
   the same tokens in every other order, and by splitting the tokens into any
   two parts, processing each part from empty counters and summing the two
   results key by key. *)
C10_OrderIndependentMergeable ==
    LET n == Len(processed)
        Pick(I) == LET keep(i) == i \in I
                       idx == SelectSeq([i \in 1..n |-> i], keep)
                   IN [j \in 1..Len(idx) |-> processed[idx[j]]]
    IN /\ \A p \in Orderings(n) :
             Run(EmptyCounters, [i \in 1..n |-> processed[p[i]]]) = Now
       /\ \A I \in SUBSET (1..n) :
             Merge(Run(EmptyCounters, Pick(I)), Run(EmptyCounters, Pick((1..n) \ I))) = Now

\* three calls, two of them on the same token, one on a compound word
C10_Witness ==
    /\ Len(processed) >= 3
    /\ \E i, j \in 1..Len(processed) : i # j /\ processed[i] = processed[j]
    /\ \E i \in 1..Len(processed) :
          Contains(processed[i], "/") /\ IsCompound(WordAndPos(processed[i])[1])
    /\ \E t \in DOMAIN pos_total_counts : pos_total_counts[t] >= 3

====
